---- MODULE Spec2Model ----
(***************************************************************************)
(* Lid-driven cavity solver (workshop3/C_expanded/src/lidCavity.c, main).  *)
(*                                                                         *)
(* The model follows main() statement by statement.  The six field        *)
(* buffers and the three centered buffers are maps from cell index to a    *)
(* cell content; the pointers u, un, v, vn, p, pn name the buffer they     *)
(* point at.  Floating point arithmetic is not evaluated: a stencil result *)
(* is an uninterpreted token naming the field, the iteration and the cell  *)
(* that produced it, constants (0.0 of the allocation, the ubc/vbc         *)
(* entries) are kept as numbers, and the four residuals of an iteration    *)
(* are drawn from a small set of doubles (NaN included).  Each cell also   *)
(* remembers who wrote it last and in which iteration.                     *)
(*                                                                         *)
(* An "omp parallel for" distributes the outer loop (i) over threads and   *)
(* runs the inner loop (j) in order inside a thread: pos[i] is the next j  *)
(* of row i, and any unfinished row may take the next step.  acc is the    *)
(* list of array accesses made so far by the bodies of the running loop.   *)
(***************************************************************************)
EXTENDS Integers, FiniteSets, Sequences, TLC

(* ---- bounds of the model ------------------------------------------- *)
\* IX (128 in the source) ranges over 3 .. MaxGrid, IY over {3, 4}
MaxGrid == 3
\* itr_max (1000000 in the source), scaled down
ItrMax == 4
\* largest residual magnitude drawn, in units of tol
MaxErr == 2

(* ---- program constants --------------------------------------------- *)
\* tol = 1.0e-7 is the unit in which residuals are measured
tol == 1
\* grid sizes the model runs (the stencils need IX, IY >= 3)
XSizes == 3 .. MaxGrid
YSizes == {3, 4}

VARIABLES
  IX, IY,                       \* grid size (compile-time constants)
  bufs,                         \* buffer id -> (cell -> content)
  freed,                        \* buffer id -> number of times released
  u, un, v, vn, p, pn,          \* field pointers (buffer ids)
  itr,                          \* iteration counter
  err_u, err_v, err_p, err_d, err_tot,
  pc,                           \* position in main()
  pos,                          \* running parallel loop: row -> next j
  acc,                          \* accesses of the running loop's bodies
  nlog,                         \* lines written to data/residual
  nswap,                        \* pointer swaps performed
  status,                       \* "running", "EXIT_SUCCESS" or "EXIT_FAILURE"
  outcome,                      \* message printed at termination
  uaf                           \* a released buffer was read or written

vars == <<IX, IY, bufs, freed, u, un, v, vn, p, pn, itr,
          err_u, err_v, err_p, err_d, err_tot,
          pc, pos, acc, nlog, nswap, status, outcome, uaf>>

(* ---- doubles --------------------------------------------------------- *)
D(x) == [nan |-> FALSE, x |-> x]
NaN == [nan |-> TRUE, x |-> 0]
isnan(a) == a.nan
\* IEEE comparison: false when either side is NaN
Gt(a, b) == ~a.nan /\ ~b.nan /\ a.x > b.x

(* ---- grid extents ---------------------------------------------------- *)
xlo == 1
xhi == IX - 1
xtot == IX + 1
ylo == 1
yhi == IY - 1
ytot == IY + 1

ubc == <<1, 0, 0, 0>>
vbc == <<0, 0, 0, 0>>

FieldBufs == {"ubufo", "ubufn", "vbufo", "vbufn", "pbufo", "pbufn"}
CenterBufs == {"u_g", "v_g", "p_g"}
BufIds == FieldBufs \cup CenterBufs

\* array_2d(row, col) extents of each buffer
Rows(b) ==
  CASE b \in {"ubufo", "ubufn"} -> IX
    [] b \in {"vbufo", "vbufn"} -> xtot
    [] b \in {"pbufo", "pbufn"} -> xtot
    [] OTHER -> IX
Cols(b) ==
  CASE b \in {"ubufo", "ubufn"} -> ytot
    [] b \in {"vbufo", "vbufn"} -> IY
    [] b \in {"pbufo", "pbufn"} -> ytot
    [] OTHER -> IY

InExt(b, i, j) == i >= 0 /\ i < Rows(b) /\ j >= 0 /\ j < Cols(b)

(* ---- cell contents ---------------------------------------------------- *)
Const(c) == [f |-> "const", n |-> c, i |-> 0, j |-> 0]
Computed(f, k, i, j) == [f |-> f, n |-> k, i |-> i, j |-> j]
Content(w, k, val) == [w |-> w, it |-> k, val |-> val]
\* what a read outside the extents returns
Garbage == Content("oob", 0, Const(0))

\* array_2d: a zero-initialised rows x cols buffer
array_2d(rows, cols) ==
  [c \in (0 .. rows - 1) \X (0 .. cols - 1) |-> Content("alloc", 0, Const(0))]

NoBuffer == [c \in {} |-> Garbage]

CellOf(bfs, b, i, j) ==
  IF <<i, j>> \in DOMAIN bfs[b] THEN bfs[b][<<i, j>>] ELSE Garbage

\* the buffer a pointer variable of main() points at
Ptr(arr) ==
  CASE arr = "u" -> u
    [] arr = "un" -> un
    [] arr = "v" -> v
    [] arr = "vn" -> vn
    [] arr = "p" -> p
    [] arr = "pn" -> pn
    [] OTHER -> arr

(* ---- array accesses --------------------------------------------------- *)
\* one access of loop body (bi, bj): rw is "r" or "w", arr the pointer
\* variable used, use the accumulator or array the value goes to
Access(lp, bi, bj, rw, arr, ci, cj, use) ==
  [loop |-> lp, bi |-> bi, bj |-> bj, rw |-> rw, arr |-> arr,
   buf |-> Ptr(arr), ci |-> ci, cj |-> cj, use |-> use,
   w |-> CellOf(bufs, Ptr(arr), ci, cj).w,
   it |-> CellOf(bufs, Ptr(arr), ci, cj).it,
   live |-> freed[Ptr(arr)] = 0,
   inext |-> InExt(Ptr(arr), ci, cj)]

Rd(lp, bi, bj, arr, ci, cj, use) == Access(lp, bi, bj, "r", arr, ci, cj, use)
Wr(lp, bi, bj, arr, ci, cj) == Access(lp, bi, bj, "w", arr, ci, cj, arr)

\* a store through pointer arr; outside the extents nothing of the model
\* is overwritten (the access is still recorded in acc)
Store(bfs, arr, ci, cj, c) ==
  IF <<ci, cj>> \in DOMAIN bfs[Ptr(arr)]
  THEN [bfs EXCEPT ![Ptr(arr)][<<ci, cj>>] = c]
  ELSE bfs

(* ---- lines 125-128: initial condition --------------------------------- *)
ICCells == {<<i, j>> : i \in xlo .. (xhi - 1), j \in {ytot - 1, ytot - 2}}

ICAccesses == {Wr("ic", c[1], c[2], "u", c[1], c[2]) : c \in ICCells}

ApplyIC ==
  /\ pc = "ic"
  /\ bufs' = [bufs EXCEPT ![u] =
       [c \in DOMAIN bufs[u] |->
          IF c \in ICCells THEN Content("init", 0, Const(ubc[1]))
          ELSE bufs[u][c]]]
  /\ acc' = ICAccesses
  /\ uaf' = (uaf \/ \E a \in ICAccesses : ~a.live)
  /\ pc' = "ubc0"
  /\ UNCHANGED <<IX, IY, freed, u, un, v, vn, p, pn, itr>>
  /\ UNCHANGED <<err_u, err_v, err_p, err_d, err_tot>>
  /\ UNCHANGED <<pos, nlog, nswap, status, outcome>>

(* ---- boundary conditions (functions.c: set_UBC, set_PBC) --------------- *)
\* boundary scalars are ordered {top, left, bottom, right}
URing(i, j) == i = 0 \/ i = IX - 1 \/ j = 0 \/ j = ytot - 1
VRing(i, j) == i = 0 \/ i = xtot - 1 \/ j = 0 \/ j = IY - 1
PRing(i, j) == i = 0 \/ i = xtot - 1 \/ j = 0 \/ j = ytot - 1

\* the Dirichlet value of a boundary cell: the side walls own the corners
UBCValue(i, j) ==
  IF i = 0 THEN ubc[2]
  ELSE IF i = IX - 1 THEN ubc[4]
  ELSE IF j = 0 THEN ubc[3] ELSE ubc[1]
VBCValue(i, j) ==
  IF i = 0 THEN vbc[2]
  ELSE IF i = xtot - 1 THEN vbc[4]
  ELSE IF j = 0 THEN vbc[3] ELSE vbc[1]

\* nearest interior cell of a pressure ring cell
Clamp(x, lo, hi) == IF x < lo THEN lo ELSE IF x > hi THEN hi ELSE x
PNearest(i, j) == <<Clamp(i, 1, xtot - 2), Clamp(j, 1, ytot - 2)>>

\* set_UBC(U, V, ubc, vbc): Dirichlet values on the ring of *U and *V
set_UBC(bfs, ub, vb, k) ==
  [b \in BufIds |->
     IF b = ub
     THEN [c \in DOMAIN bfs[b] |->
             IF URing(c[1], c[2])
             THEN Content("bc", k, Const(UBCValue(c[1], c[2])))
             ELSE bfs[b][c]]
     ELSE IF b = vb
     THEN [c \in DOMAIN bfs[b] |->
             IF VRing(c[1], c[2])
             THEN Content("bc", k, Const(VBCValue(c[1], c[2])))
             ELSE bfs[b][c]]
     ELSE bfs[b]]

\* set_PBC(P, pbc, dx, dy): zero gradient, the ring of *P mirrors the
\* nearest interior cell
set_PBC(bfs, pb, k) ==
  [bfs EXCEPT ![pb] =
     [c \in DOMAIN bfs[pb] |->
        IF PRing(c[1], c[2])
        THEN Content("bc", k, bfs[pb][PNearest(c[1], c[2])].val)
        ELSE bfs[pb][c]]]

(* ---- parallel loops ----------------------------------------------------- *)
Pending(i, jlast) == i \in DOMAIN pos /\ pos[i] <= jlast
LoopDone(jlast) == \A i \in DOMAIN pos : pos[i] > jlast
Fork(rows, jfirst) == [i \in rows |-> jfirst]
NoLoop == [i \in {} |-> 0]

\* lines 138-139
ULoopI == xlo .. (xhi - 1)
\* the inner loop running one cell too far (j < ytot)
ULastJ_OffByOne == ytot - 1
ULastJ == ytot - 2
\* lines 155-156
VLoopI == xlo .. (xtot - 2)
VLastJ == yhi - 1
\* lines 174-175
PLoopI == xlo .. (xtot - 2)
PLastJ == ytot - 2
\* lines 187-188
RLoopI == xlo .. (xhi - 1)
RLastJ == yhi - 1
\* lines 252-253; the outer loop running one row too far (i <= IX)
GLoopI_OffByOne == 0 .. IX
GLoopI == 0 .. (IX - 1)
GLastJ == IY - 1

\* a loop body that stores through the buffer it also reads
UTarget_InPlace == "u"
\* line 140: the pointer the x-momentum loop stores through
UTarget == "un"

\* lines 140-149
UBodyAccesses(i, j) ==
  { Rd("u", i, j, "u", i + 1, j, "un"), Rd("u", i, j, "u", i, j, "un"),
    Rd("u", i, j, "u", i - 1, j, "un"), Rd("u", i, j, "u", i, j + 1, "un"),
    Rd("u", i, j, "u", i, j - 1, "un"),
    Rd("u", i, j, "v", i + 1, j, "un"), Rd("u", i, j, "v", i, j, "un"),
    Rd("u", i, j, "v", i + 1, j - 1, "un"), Rd("u", i, j, "v", i, j - 1, "un"),
    Rd("u", i, j, "p", i + 1, j, "un"), Rd("u", i, j, "p", i, j, "un"),
    Wr("u", i, j, UTarget, i, j) }

UBodyStore(i, j) ==
  Store(bufs, UTarget, i, j, Content("upd", itr, Computed("u", itr, i, j)))

\* lines 157-166
VBodyAccesses(i, j) ==
  { Rd("v", i, j, "u", i, j + 1, "vn"), Rd("v", i, j, "u", i, j, "vn"),
    Rd("v", i, j, "u", i - 1, j + 1, "vn"), Rd("v", i, j, "u", i - 1, j, "vn"),
    Rd("v", i, j, "v", i + 1, j, "vn"), Rd("v", i, j, "v", i, j, "vn"),
    Rd("v", i, j, "v", i - 1, j, "vn"), Rd("v", i, j, "v", i, j + 1, "vn"),
    Rd("v", i, j, "v", i, j - 1, "vn"),
    Rd("v", i, j, "p", i, j + 1, "vn"), Rd("v", i, j, "p", i, j, "vn"),
    Wr("v", i, j, "vn", i, j) }

VBodyStore(i, j) ==
  Store(bufs, "vn", i, j, Content("upd", itr, Computed("v", itr, i, j)))

\* lines 176-177
PBodyAccesses(i, j) ==
  { Rd("p", i, j, "p", i, j, "pn"),
    Rd("p", i, j, "un", i, j, "pn"), Rd("p", i, j, "un", i - 1, j, "pn"),
    Rd("p", i, j, "vn", i, j, "pn"), Rd("p", i, j, "vn", i, j - 1, "pn"),
    Wr("p", i, j, "pn", i, j) }

PBodyStore(i, j) ==
  Store(bufs, "pn", i, j, Content("upd", itr, Computed("p", itr, i, j)))

\* lines 189-193
RBodyAccesses(i, j) ==
  { Rd("r", i, j, "un", i, j, "err_u"), Rd("r", i, j, "u", i, j, "err_u"),
    Rd("r", i, j, "vn", i, j, "err_v"), Rd("r", i, j, "v", i, j, "err_v"),
    Rd("r", i, j, "pn", i, j, "err_p"), Rd("r", i, j, "p", i, j, "err_p"),
    Rd("r", i, j, "un", i, j, "err_d"), Rd("r", i, j, "un", i - 1, j, "err_d"),
    Rd("r", i, j, "vn", i, j, "err_d"), Rd("r", i, j, "vn", i, j - 1, "err_d") }

\* lines 254-256
GBodyAccesses(i, j) ==
  { Rd("g", i, j, "u", i, j + 1, "u_g"), Rd("g", i, j, "u", i, j, "u_g"),
    Rd("g", i, j, "v", i + 1, j, "v_g"), Rd("g", i, j, "v", i, j, "v_g"),
    Rd("g", i, j, "p", i, j, "p_g"), Rd("g", i, j, "p", i + 1, j, "p_g"),
    Rd("g", i, j, "p", i, j + 1, "p_g"), Rd("g", i, j, "p", i + 1, j + 1, "p_g"),
    Wr("g", i, j, "u_g", i, j), Wr("g", i, j, "v_g", i, j),
    Wr("g", i, j, "p_g", i, j) }

GBodyStore(i, j) ==
  Store(Store(Store(bufs,
      "u_g", i, j, Content("upd", itr, Computed("u_g", itr, i, j))),
      "v_g", i, j, Content("upd", itr, Computed("v_g", itr, i, j))),
      "p_g", i, j, Content("upd", itr, Computed("p_g", itr, i, j)))

(* ---- helpers of functions.c --------------------------------------------- *)
\* freeMem(phi, ...): releases every buffer of the argument list
freeMem(fr, args) == [b \in BufIds |-> IF b \in args THEN fr[b] + 1 ELSE fr[b]]

MaxOf(S) == CHOOSE m \in S : \A x \in S : x.x <= m.x

\* fmaxof(errs, ...): the largest argument.  What it returns when an
\* argument is NaN is not fixed: either NaN or the largest of the others
fmaxof(a, b, c, d) ==
  LET args == {a, b, c, d}
      nums == {x \in args : ~x.nan}
  IN  IF nums = args THEN {MaxOf(nums)}
      ELSE IF nums = {} THEN {NaN}
      ELSE {NaN, MaxOf(nums)}

\* values drawn for a norm sqrt(dtdxdy * sum of squares): below and above tol
NormVals == {D(0), D(MaxErr)}
\* values drawn for the signed sum err_d; a diverged field shows here as NaN
SumVals == {NaN, D(0 - MaxErr), D(0), D(tol), D(MaxErr)}

(* ---- groups of variables -------------------------------------------------- *)
grid == <<IX, IY>>
ptrs == <<u, un, v, vn, p, pn>>
errs == <<err_u, err_v, err_p, err_d, err_tot>>
term == <<freed, status, outcome>>
logs == <<nlog, nswap>>

Touched(as) == uaf' = (uaf \/ \E a \in as : ~a.live)

(* ---- lines 99-122: state after the allocations ---------------------------- *)
Init ==
  /\ IX \in XSizes
  /\ IY \in YSizes
  /\ bufs = [b \in BufIds |->
               IF b \in FieldBufs THEN array_2d(Rows(b), Cols(b)) ELSE NoBuffer]
  /\ freed = [b \in BufIds |-> 0]
  /\ u = "ubufo" /\ un = "ubufn"
  /\ v = "vbufo" /\ vn = "vbufn"
  /\ p = "pbufo" /\ pn = "pbufn"
  /\ itr = 1
  \* the residuals are not read before lines 184-201 assign them
  /\ err_u = D(0) /\ err_v = D(0) /\ err_p = D(0) /\ err_d = D(0)
  /\ err_tot = D(0)
  /\ pc = "ic"
  /\ pos = NoLoop
  /\ acc = {}
  /\ nlog = 0
  /\ nswap = 0
  /\ status = "running"
  /\ outcome = "none"
  /\ uaf = FALSE

(* ---- lines 131-132 -------------------------------------------------------- *)
InitUBC ==
  /\ pc = "ubc0"
  /\ bufs' = set_UBC(bufs, u, v, 0)
  /\ uaf' = (uaf \/ freed[u] > 0 \/ freed[v] > 0)
  /\ pc' = "pbc0"
  /\ UNCHANGED <<grid, ptrs, errs, term, logs, itr, pos, acc>>

InitPBC ==
  /\ pc = "pbc0"
  /\ bufs' = set_PBC(bufs, p, 0)
  /\ uaf' = (uaf \/ freed[p] > 0)
  /\ pc' = "u"
  /\ pos' = Fork(ULoopI, ylo)
  /\ acc' = {}
  /\ UNCHANGED <<grid, ptrs, errs, term, logs, itr>>

(* ---- lines 137-151: x-momentum -------------------------------------------- *)
ULoopBody(i) ==
  /\ pc = "u"
  /\ Pending(i, ULastJ)
  /\ acc' = acc \cup UBodyAccesses(i, pos[i])
  /\ Touched(UBodyAccesses(i, pos[i]))
  /\ bufs' = UBodyStore(i, pos[i])
  /\ pos' = [pos EXCEPT ![i] = @ + 1]
  /\ UNCHANGED <<grid, ptrs, errs, term, logs, itr, pc>>

ULoopEnd ==
  /\ pc = "u"
  /\ LoopDone(ULastJ)
  /\ pc' = "v"
  /\ pos' = Fork(VLoopI, ylo)
  /\ acc' = {}
  /\ UNCHANGED <<grid, ptrs, errs, term, logs, itr, bufs, uaf>>

(* ---- lines 154-168: y-momentum -------------------------------------------- *)
VLoopBody(i) ==
  /\ pc = "v"
  /\ Pending(i, VLastJ)
  /\ acc' = acc \cup VBodyAccesses(i, pos[i])
  /\ Touched(VBodyAccesses(i, pos[i]))
  /\ bufs' = VBodyStore(i, pos[i])
  /\ pos' = [pos EXCEPT ![i] = @ + 1]
  /\ UNCHANGED <<grid, ptrs, errs, term, logs, itr, pc>>

VLoopEnd ==
  /\ pc = "v"
  /\ LoopDone(VLastJ)
  /\ pc' = "ubc"
  /\ pos' = NoLoop
  /\ UNCHANGED <<grid, ptrs, errs, term, logs, itr, bufs, uaf, acc>>

(* ---- line 170 ------------------------------------------------------------- *)
LoopUBC ==
  /\ pc = "ubc"
  /\ bufs' = set_UBC(bufs, u, v, itr)
  /\ uaf' = (uaf \/ freed[u] > 0 \/ freed[v] > 0)
  /\ pc' = "p"
  /\ pos' = Fork(PLoopI, ylo)
  /\ acc' = {}
  /\ UNCHANGED <<grid, ptrs, errs, term, logs, itr>>

(* ---- lines 173-179: continuity -------------------------------------------- *)
PLoopBody(i) ==
  /\ pc = "p"
  /\ Pending(i, PLastJ)
  /\ acc' = acc \cup PBodyAccesses(i, pos[i])
  /\ Touched(PBodyAccesses(i, pos[i]))
  /\ bufs' = PBodyStore(i, pos[i])
  /\ pos' = [pos EXCEPT ![i] = @ + 1]
  /\ UNCHANGED <<grid, ptrs, errs, term, logs, itr, pc>>

PLoopEnd ==
  /\ pc = "p"
  /\ LoopDone(PLastJ)
  /\ pc' = "pbc"
  /\ pos' = NoLoop
  /\ UNCHANGED <<grid, ptrs, errs, term, logs, itr, bufs, uaf, acc>>

(* ---- lines 181-184 -------------------------------------------------------- *)
LoopPBC ==
  /\ pc = "pbc"
  /\ bufs' = set_PBC(bufs, p, itr)
  /\ uaf' = (uaf \/ freed[p] > 0)
  /\ err_u' = D(0) /\ err_v' = D(0) /\ err_p' = D(0) /\ err_d' = D(0)
  /\ pc' = "r"
  /\ pos' = Fork(RLoopI, ylo)
  /\ acc' = {}
  /\ UNCHANGED <<grid, ptrs, err_tot, term, logs, itr>>

(* ---- lines 185-195: residual sums ----------------------------------------- *)
RLoopBody(i) ==
  /\ pc = "r"
  /\ Pending(i, RLastJ)
  /\ acc' = acc \cup RBodyAccesses(i, pos[i])
  /\ Touched(RBodyAccesses(i, pos[i]))
  /\ pos' = [pos EXCEPT ![i] = @ + 1]
  /\ UNCHANGED <<grid, ptrs, errs, term, logs, itr, pc, bufs>>

(* ---- lines 197-201: the reduction result, the norms and err_tot ----------- *)
Norms ==
  /\ pc = "r"
  /\ LoopDone(RLastJ)
  /\ err_u' \in NormVals
  /\ err_v' \in NormVals
  /\ err_p' \in NormVals
  /\ err_d' \in SumVals
  /\ err_tot' \in fmaxof(err_u', err_v', err_p', err_d')
  /\ pc' = "check"
  /\ pos' = NoLoop
  /\ UNCHANGED <<grid, ptrs, term, logs, itr, bufs, uaf, acc>>

\* the loop without its divergence test
CheckDiverged_NoTest ==
  /\ pc = "check"
  /\ pc' = "log"
  /\ UNCHANGED <<grid, ptrs, errs, logs, itr, bufs, uaf, acc, pos, term>>

(* ---- lines 204-210 -------------------------------------------------------- *)
CheckDiverged ==
  /\ pc = "check"
  /\ IF isnan(err_tot)
     THEN /\ outcome' = "Diverged"
          /\ freed' = freeMem(freed, FieldBufs)
          /\ status' = "EXIT_FAILURE"
          /\ pc' = "exit"
     ELSE /\ pc' = "log"
          /\ UNCHANGED term
  /\ UNCHANGED <<grid, ptrs, errs, logs, itr, bufs, uaf, acc, pos>>

(* ---- lines 213-230: log line, pointer swap, loop test --------------------- *)
EndIteration ==
  /\ pc = "log"
  /\ nlog' = nlog + 1
  /\ u' = un /\ un' = u
  /\ v' = vn /\ vn' = v
  /\ p' = pn /\ pn' = p
  /\ nswap' = nswap + 1
  /\ itr' = itr + 1
  /\ IF Gt(err_tot, D(tol)) /\ itr' < ItrMax
     THEN /\ pc' = "u"
          /\ pos' = Fork(ULoopI, ylo)
          /\ acc' = {}
     ELSE /\ pc' = "after"
          /\ UNCHANGED <<pos, acc>>
  /\ UNCHANGED <<grid, errs, term, bufs, uaf>>

\* the iteration-cap exit without its freeMem
AfterLoop_LeakOnCap ==
  /\ pc = "after"
  /\ IF itr = ItrMax
     THEN /\ outcome' = "MaxIterationsExceeded"
          /\ status' = "EXIT_FAILURE"
          /\ pc' = "exit"
          /\ UNCHANGED <<bufs, pos, acc, freed>>
     ELSE /\ outcome' = "Converged"
          /\ bufs' = [b \in BufIds |->
                        IF b \in CenterBufs THEN array_2d(IX, IY) ELSE bufs[b]]
          /\ pc' = "g"
          /\ pos' = Fork(GLoopI, 0)
          /\ acc' = {}
          /\ UNCHANGED <<freed, status>>
  /\ UNCHANGED <<grid, ptrs, errs, logs, itr, uaf>>

(* ---- lines 232-249 -------------------------------------------------------- *)
AfterLoop ==
  /\ pc = "after"
  /\ IF itr = ItrMax
     THEN /\ outcome' = "MaxIterationsExceeded"
          /\ freed' = freeMem(freed, FieldBufs)
          /\ status' = "EXIT_FAILURE"
          /\ pc' = "exit"
          /\ UNCHANGED <<bufs, pos, acc>>
     ELSE /\ outcome' = "Converged"
          /\ bufs' = [b \in BufIds |->
                        IF b \in CenterBufs THEN array_2d(IX, IY) ELSE bufs[b]]
          /\ pc' = "g"
          /\ pos' = Fork(GLoopI, 0)
          /\ acc' = {}
          /\ UNCHANGED <<freed, status>>
  /\ UNCHANGED <<grid, ptrs, errs, logs, itr, uaf>>

(* ---- lines 251-258: centered fields --------------------------------------- *)
GLoopBody(i) ==
  /\ pc = "g"
  /\ Pending(i, GLastJ)
  /\ acc' = acc \cup GBodyAccesses(i, pos[i])
  /\ Touched(GBodyAccesses(i, pos[i]))
  /\ bufs' = GBodyStore(i, pos[i])
  /\ pos' = [pos EXCEPT ![i] = @ + 1]
  /\ UNCHANGED <<grid, ptrs, errs, term, logs, itr, pc>>

(* ---- line 261 ------------------------------------------------------------- *)
GLoopEnd ==
  /\ pc = "g"
  /\ LoopDone(GLastJ)
  /\ freed' = freeMem(freed, FieldBufs)
  /\ pc' = "dump"
  /\ pos' = NoLoop
  /\ UNCHANGED <<grid, ptrs, errs, logs, itr, bufs, uaf, acc, status, outcome>>

(* ---- lines 264-269 -------------------------------------------------------- *)
Dump ==
  /\ pc = "dump"
  /\ uaf' = (uaf \/ \E b \in CenterBufs : freed[b] > 0)
  /\ freed' = freeMem(freed, CenterBufs)
  /\ status' = "EXIT_SUCCESS"
  /\ pc' = "exit"
  /\ UNCHANGED <<grid, ptrs, errs, logs, itr, bufs, acc, pos, outcome>>

Next ==
  \/ ApplyIC
  \/ InitUBC
  \/ InitPBC
  \/ \E i \in ULoopI : ULoopBody(i)
  \/ ULoopEnd
  \/ \E i \in VLoopI : VLoopBody(i)
  \/ VLoopEnd
  \/ LoopUBC
  \/ \E i \in PLoopI : PLoopBody(i)
  \/ PLoopEnd
  \/ LoopPBC
  \/ \E i \in RLoopI : RLoopBody(i)
  \/ Norms
  \/ CheckDiverged
  \/ EndIteration
  \/ AfterLoop
  \/ \E i \in GLoopI : GLoopBody(i)
  \/ GLoopEnd
  \/ Dump

Spec == Init /\ [][Next]_vars

TypeOK ==
  /\ IX \in XSizes /\ IY \in YSizes
  /\ itr \in 1 .. ItrMax
  /\ pc \in {"ic", "ubc0", "pbc0", "u", "v", "ubc", "p", "pbc", "r", "check",
             "log", "after", "g", "dump", "exit"}
  /\ status \in {"running", "EXIT_SUCCESS", "EXIT_FAILURE"}
  /\ {u, un} = {"ubufo", "ubufn"}
  /\ {v, vn} = {"vbufo", "vbufn"}
  /\ {p, pn} = {"pbufo", "pbufn"}

(* ======================================================================== *)
(* Properties                                                                *)
(* ======================================================================== *)
Terminated == pc = "exit"
Le(a, b) == ~a.nan /\ ~b.nan /\ a.x <= b.x
SameCell(a, b) == a.buf = b.buf /\ a.ci = b.ci /\ a.cj = b.cj
SameBody(a, b) == a.bi = b.bi /\ a.bj = b.bj
RingOf(b, i, j) ==
  CASE b \in {"ubufo", "ubufn"} -> URing(i, j)
    [] b \in {"vbufo", "vbufn"} -> VRing(i, j)
    [] OTHER -> PRing(i, j)
UDirichlet(b) ==
  \A c \in DOMAIN bufs[b] :
    URing(c[1], c[2]) => bufs[b][c].val = Const(UBCValue(c[1], c[2]))
VDirichlet(b) ==
  \A c \in DOMAIN bufs[b] :
    VRing(c[1], c[2]) => bufs[b][c].val = Const(VBCValue(c[1], c[2]))
PNeumann(b) ==
  \A c \in DOMAIN bufs[b] :
    PRing(c[1], c[2]) => bufs[b][c].val = bufs[b][PNearest(c[1], c[2])].val
StencilStart == pc = "u" /\ acc = {}

\* C1: once an iteration's err_tot is a number <= tol, the run ends as
\* Converged with exit status success, whatever the iteration counter is;
\* MaxIterationsExceeded is printed only when the last iteration executed
\* missed the tolerance.
C1_ToleranceMetMeansConverged ==
  /\ outcome = "MaxIterationsExceeded" => Gt(err_tot, D(tol))
  /\ (outcome # "none" /\ Le(err_tot, D(tol))) => outcome = "Converged"
  /\ (Terminated /\ Le(err_tot, D(tol))) => status = "EXIT_SUCCESS"

\* C2: the boundary passes act on the buffers just updated: when the pressure
\* loop starts, the ring of un and vn holds the Dirichlet values; and at the
\* start of every iteration's stencil u and v hold the Dirichlet values on
\* their ring and the ring of p equals its nearest interior neighbour.
C2_BoundaryHoldsOnUpdatedFields ==
  /\ (pc = "p" /\ acc = {}) => (UDirichlet(un) /\ VDirichlet(vn))
  /\ StencilStart => (UDirichlet(u) /\ VDirichlet(v) /\ PNeumann(p))

\* C3: an iteration whose err_tot is NaN ends the run in that iteration with
\* a failure status: no residual line for it, no swap, no increment of the
\* counter, no further iteration, and the message is never the cap's.
C3_NaNEndsRunInSameIteration ==
  isnan(err_tot) =>
    /\ pc \in {"check", "exit"}
    /\ nlog = itr - 1
    /\ nswap = itr - 1
    /\ itr < ItrMax
    /\ Terminated => (outcome = "Diverged" /\ status = "EXIT_FAILURE")
    /\ ~Terminated => (outcome = "none" /\ status = "running")

C3_Witness ==
  Terminated /\ isnan(err_tot) /\ outcome = "Diverged" /\ itr = 2 /\ nswap = 1

\* C4: on every terminal path each of the six field buffers has been
\* released exactly once when the process exits, none is ever released
\* twice, and no buffer is read or written after its release.
C4_FieldBuffersReleasedOnce ==
  /\ ~uaf
  /\ \A b \in FieldBufs : freed[b] <= 1
  /\ Terminated =>
       /\ outcome \in {"Converged", "Diverged", "MaxIterationsExceeded"}
       /\ \A b \in FieldBufs : freed[b] = 1

C4_Witness ==
  /\ Terminated /\ outcome = "MaxIterationsExceeded" /\ nswap = ItrMax - 1
  /\ u # "ubufo" /\ v # "vbufo" /\ p # "pbufo"
  /\ \A b \in FieldBufs : freed[b] = 1

\* C5: whenever the run ends as Converged, the magnitude of the divergence
\* residual err_d of the last iteration is at most tol.
C5_ConvergedDivergenceWithinTol ==
  (outcome = "Converged" /\ ~isnan(err_d)) =>
     (Le(err_d, D(tol)) /\ Le(D(0 - tol), err_d))

\* C6: in the u, v, pressure and centered-interpolation loops no cell written
\* by one loop body is read or written by another body of the same loop: a
\* body writes one cell per target buffer, and no buffer written by the loop
\* is read by it.
C6_ParallelLoopsRaceFree ==
  pc \in {"u", "v", "p", "g"} =>
    \A a \in {x \in acc : x.rw = "w"} : \A b \in acc :
      /\ ~SameBody(a, b) => ~SameCell(a, b)
      /\ (SameBody(a, b) /\ b.rw = "w" /\ a.buf = b.buf) => SameCell(a, b)
      /\ b.rw = "r" => a.buf # b.buf

C6_Witness ==
  /\ pc = "p" /\ LoopDone(PLastJ) /\ nswap = 1
  /\ Cardinality({<<a.bi, a.bj>> : a \in acc}) >= 4

\* C7: every u and v value read by the pressure update and by the divergence
\* residual err_d was written in the same iteration, by the momentum loops or
\* by a boundary pass.
C7_PressureReadsFreshVelocities ==
  pc \in {"p", "pbc", "r", "check"} =>
    \A a \in acc :
      (/\ a.rw = "r"
       /\ a.arr \in {"un", "vn"}
       /\ (a.loop = "p" \/ (a.loop = "r" /\ a.use = "err_d")))
      => (a.it = itr /\ a.w \in {"upd", "bc"})

\* C8: the three update loops write only into the next buffers, never into a
\* current buffer, and only at cells off the outermost ring of the buffer.
WrittenThisIteration(b) ==
  {c \in DOMAIN bufs[b] : bufs[b][c].w = "upd" /\ bufs[b][c].it = itr}

C8_IntegratorWritesInteriorOfNext ==
  pc \in {"u", "v", "ubc", "p", "pbc"} =>
    /\ \A a \in acc :
         a.rw = "w" =>
           /\ a.buf \in {un, vn, pn}
           /\ a.buf \notin {u, v, p}
           /\ a.inext
           /\ ~RingOf(a.buf, a.ci, a.cj)
    /\ \A b \in {u, v, p} : WrittenThisIteration(b) = {}
    /\ \A b \in {un, vn, pn} :
         \A c \in WrittenThisIteration(b) : ~RingOf(b, c[1], c[2])

C8_Witness ==
  /\ pc = "pbc" /\ nswap = 1 /\ IX # IY
  /\ \E a \in acc : a.rw = "w" /\ a.buf = "pbufo"

\* C9: in every iteration the sums of err_u, err_v and err_p range over every
\* cell the integrator updated for that field in that iteration.
UpdatedCells(b) == WrittenThisIteration(b)
Summed(arr, use) ==
  {<<a.ci, a.cj>> : a \in {x \in acc : x.loop = "r" /\ x.arr = arr /\ x.use = use}}

C9_ResidualCoversUpdatedCells ==
  pc = "check" =>
    /\ UpdatedCells(un) \subseteq Summed("un", "err_u")
    /\ UpdatedCells(vn) \subseteq Summed("vn", "err_v")
    /\ UpdatedCells(pn) \subseteq Summed("pn", "err_p")

\* C10: every array access of the initial-condition loop, the three update
\* loops, the residual loop and the centered-interpolation loop lies within
\* the extents the addressed buffer was allocated with.
C10_AccessesWithinExtents ==
  \A a \in acc : a.inext

C10_Witness ==
  /\ pc = "g" /\ LoopDone(GLastJ) /\ IX # IY
  /\ \E a \in acc : a.arr = "p" /\ a.ci = IX /\ a.cj = IY

====
